---- MODULE Spec2Model ----
(***************************************************************************)
(* Paddy Dealer Management (src/main.py): a Streamlit session that fetches *)
(* one HTML file through the GitHub contents API, decodes the embedded     *)
(* dealersData array and the region options, edits them in memory and      *)
(* writes the re-encoded file back.                                        *)
(*                                                                         *)
(* Text is a sequence of symbols.  A symbol is one character class of the  *)
(* source's regular expressions (a run of word characters that the code    *)
(* never splits, one punctuation character, one whitespace run) or one of  *)
(* the fixed literals the patterns and f-strings of the code spell out.    *)
(***************************************************************************)
EXTENDS Integers, Sequences, FiniteSets, TLC

(***************************************************************************)
(* Symbols                                                                 *)
(***************************************************************************)
KW_DEALERS == "const dealersData = "
SEL_OPEN == "<select class=\"area-select\" id=\"areaSelect\">"
SEL_CLOSE == "</select>"
OPT_OPEN == "<option value=\""
OPT_MID == "\">"
OPT_CLOSE == "</option>"
PLACEHOLDER == "<option value=\"\">-- Choose an area --</option>"
NL == "\n"
SP == " "
QUOTE == "\""
BSL == "\\"

\* Runs of [A-Za-z0-9_]: object keys, and the words typed into the forms.
\* Words typed by the operator start with a capital or a digit, so that a
\* backslash before one is neither a JSON escape nor a template escape.
KeyWords == {"name", "contact", "rating", "regions", "paddyTypes", "price", "unit"}

ValueWords == {"A", "B", "Tel", "Rice", "100", "5", "per", "quintal",
               "East", "West", "North", "New", "Town"}

WordChars == KeyWords \cup ValueWords

IsWord(c) == c \in WordChars

IsSpace(c) == c \in {NL, SP}

\* Code-point order of the symbols that occur in region labels (sorted()).
SymRank(c) ==
  CASE c = SP -> 0
    [] c = QUOTE -> 1
    [] c = "&" -> 2
    [] c = "A" -> 5
    [] c = "B" -> 6
    [] c = "East" -> 10
    [] c = "New" -> 11
    [] c = "North" -> 12
    [] c = "Town" -> 13
    [] c = "West" -> 14
    [] c = BSL -> 20
    [] OTHER -> 30

RECURSIVE StrLess(_, _)
StrLess(a, b) ==
  IF a = <<>> THEN b # <<>>
  ELSE IF b = <<>> THEN FALSE
  ELSE IF SymRank(Head(a)) < SymRank(Head(b)) THEN TRUE
  ELSE IF SymRank(Head(a)) > SymRank(Head(b)) THEN FALSE
  ELSE StrLess(Tail(a), Tail(b))

RECURSIVE Insert(_, _)
Insert(x, s) ==
  IF s = <<>> THEN <<x>>
  ELSE IF StrLess(x, Head(s)) THEN <<x>> \o s
  ELSE <<Head(s)>> \o Insert(x, Tail(s))

\* sorted(regions)
RECURSIVE sorted(_)
sorted(s) == IF s = <<>> THEN <<>> ELSE Insert(Head(s), sorted(Tail(s)))

\* The concatenation of the texts ss[lo], ..., ss[hi].
RECURSIVE FlattenRange(_, _, _)
FlattenRange(ss, lo, hi) ==
  IF lo > hi THEN <<>>
  ELSE IF lo = hi THEN ss[lo]
  ELSE LET mid == (lo + hi) \div 2
       IN FlattenRange(ss, lo, mid) \o FlattenRange(ss, mid + 1, hi)

Flatten(ss) == FlattenRange(ss, 1, Len(ss))

\* sep.join(parts)
Join(sep, parts) ==
  Flatten([i \in 1..(2 * Len(parts) - 1) |->
             IF i % 2 = 1 THEN parts[(i + 1) \div 2] ELSE sep])

Elems(s) == {s[i] : i \in 1..Len(s)}

Min(S) == CHOOSE x \in S : \A y \in S : x <= y

(***************************************************************************)
(* Regular-expression matching (module re)                                 *)
(***************************************************************************)
\* r'const dealersData = \[[\s\S]*?\];' tried at index i: the index of the
\* closing ';' of the shortest match, 0 when the pattern does not match there.
StmtMatchEnd(text, i) ==
  IF i + 1 <= Len(text) /\ text[i] = KW_DEALERS /\ text[i + 1] = "["
  THEN LET ends == {j \in (i + 2)..(Len(text) - 1) : text[j] = "]" /\ text[j + 1] = ";"}
       IN IF ends = {} THEN 0 ELSE Min(ends) + 1
  ELSE 0

\* r'<select class="area-select" id="areaSelect">[\s\S]*?</select>' at index i.
SelectMatchEnd(text, i) ==
  IF i <= Len(text) /\ text[i] = SEL_OPEN
  THEN LET ends == {j \in (i + 1)..Len(text) : text[j] = SEL_CLOSE}
       IN IF ends = {} THEN 0 ELSE Min(ends)
  ELSE 0

\* The end of the run of word characters that starts at index i.
RECURSIVE WordRunEnd(_, _)
WordRunEnd(text, i) ==
  IF i + 1 <= Len(text) /\ IsWord(text[i + 1]) THEN WordRunEnd(text, i + 1) ELSE i

\* r'<option value="(\w+)">\1</option>' at index i: the index of the closing
\* tag, 0 when the pattern does not match there.
OptionMatchEnd(text, i) ==
  IF i + 1 <= Len(text) /\ text[i] = OPT_OPEN /\ IsWord(text[i + 1])
  THEN LET j == WordRunEnd(text, i + 1)
           n == j - i
       IN IF /\ j + 1 + n + 1 <= Len(text)
             /\ text[j + 1] = OPT_MID
             /\ SubSeq(text, j + 2, j + 1 + n) = SubSeq(text, i + 1, j)
             /\ text[j + 2 + n] = OPT_CLOSE
          THEN j + 2 + n
          ELSE 0
  ELSE 0

\* The end of the match of the named pattern at index i, 0 when there is none.
MatchEnd(pattern, text, i) ==
  CASE pattern = "statement" -> StmtMatchEnd(text, i)
    [] pattern = "select" -> SelectMatchEnd(text, i)
    [] pattern = "option" -> OptionMatchEnd(text, i)

\* re.search: the leftmost index >= from where the pattern matches, 0 if none.
Search(pattern, text, from) ==
  LET starts == {i \in from..Len(text) : MatchEnd(pattern, text, i) # 0}
  IN IF starts = {} THEN 0 ELSE Min(starts)

\* The replacement template of re.sub: a doubled backslash is one backslash,
\* a backslash before an ASCII letter or digit (or at the end) is an error,
\* a backslash before anything else is left alone.
\* A backslash starts an escape when an even number of backslashes precede it.
RECURSIVE BackslashesBefore(_, _)
BackslashesBefore(text, i) ==
  IF i > 1 /\ text[i - 1] = BSL THEN 1 + BackslashesBefore(text, i - 1) ELSE 0

StartsEscape(text, i) == text[i] = BSL /\ BackslashesBefore(text, i) % 2 = 0

ExpandTemplate(repl) ==
  LET bad(i) == StartsEscape(repl, i) /\ (i = Len(repl) \/ IsWord(repl[i + 1]))
      out(i) == IF repl[i] = BSL /\ ~StartsEscape(repl, i) THEN <<>> ELSE <<repl[i]>>
  IN IF \E i \in 1..Len(repl) : bad(i) THEN [ok |-> FALSE, v |-> <<>>]
     ELSE [ok |-> TRUE, v |-> Flatten([i \in 1..Len(repl) |-> out(i)])]

\* Every non-overlapping match from index `from` on replaced by `by`.
RECURSIVE ReplaceAll(_, _, _, _)
ReplaceAll(pattern, text, from, by) ==
  LET i == Search(pattern, text, from)
  IN IF i = 0 THEN SubSeq(text, from, Len(text))
     ELSE SubSeq(text, from, i - 1) \o by
          \o ReplaceAll(pattern, text, MatchEnd(pattern, text, i) + 1, by)

\* re.sub(pattern, repl, text): raises on a bad template, match or no match.
ReSub(pattern, repl, text) ==
  LET t == ExpandTemplate(repl)
  IN IF t.ok THEN [ok |-> TRUE, v |-> ReplaceAll(pattern, text, 1, t.v)]
     ELSE [ok |-> FALSE, v |-> <<>>]

\* re.sub(r'(\w+):', r'"\1":', text): every run of word characters that a
\* colon follows is put in double quotes.
QuoteKeys(text) ==
  LET keyed(i) == LET j == WordRunEnd(text, i)
                  IN j + 1 <= Len(text) /\ text[j + 1] = ":"
      first(i) == i = 1 \/ ~IsWord(text[i - 1])
      last(i) == WordRunEnd(text, i) = i
      out(i) == IF IsWord(text[i]) /\ keyed(i)
                THEN (IF first(i) THEN <<QUOTE>> ELSE <<>>) \o <<text[i]>>
                     \o (IF last(i) THEN <<QUOTE>> ELSE <<>>)
                ELSE <<text[i]>>
  IN Flatten([i \in 1..Len(text) |-> out(i)])

\* The three symbol repairs: mis-decoded rupee, star and phone glyphs.
FixGlyph(c) ==
  CASE c = "<mojibake rupee>" -> "<rupee>"
    [] c = "<mojibake star>" -> "<star>"
    [] c = "<mojibake phone>" -> "<phone>"
    [] OTHER -> c

FixGlyphs(text) == [i \in 1..Len(text) |-> FixGlyph(text[i])]

(***************************************************************************)
(* json.dumps(dealers, indent=12, ensure_ascii=False)                      *)
(***************************************************************************)
UNIT == <<"per", SP, "quintal">>

DealerKeys == <<"name", "contact", "rating", "regions", "paddyTypes">>

PaddyKeys == <<"name", "price", "unit">>

EscapeSym(c) ==
  IF c = QUOTE THEN <<BSL, QUOTE>>
  ELSE IF c = BSL THEN <<BSL, BSL>>
  ELSE <<c>>

DumpStr(str) ==
  <<QUOTE>> \o Flatten([i \in 1..Len(str) |-> EscapeSym(str[i])]) \o <<QUOTE>>

\* A list or an object with its items one per line; "[]" when it is empty.
DumpItems(open, items, close) ==
  IF items = <<>> THEN <<open, close>>
  ELSE <<open, NL>> \o Join(<<",", NL>>, items) \o <<NL, close>>

DumpMember(key, valueText) == <<QUOTE, key, QUOTE, ":", SP>> \o valueText

DumpStrList(strs) == DumpItems("[", [i \in 1..Len(strs) |-> DumpStr(strs[i])], "]")

DumpPaddy(p) ==
  DumpItems("{", << DumpMember("name", DumpStr(p.name)),
                    DumpMember("price", DumpStr(p.price)),
                    DumpMember("unit", DumpStr(p.unit)) >>, "}")

DumpDealer(d) ==
  DumpItems("{", << DumpMember("name", DumpStr(d.name)),
                    DumpMember("contact", DumpStr(d.contact)),
                    DumpMember("rating", DumpStr(d.rating)),
                    DumpMember("regions", DumpStrList(d.regions)),
                    DumpMember("paddyTypes",
                      DumpItems("[", [i \in 1..Len(d.paddyTypes) |->
                                        DumpPaddy(d.paddyTypes[i])], "]")) >>, "}")

json_dumps(dealers_data) ==
  DumpItems("[", [i \in 1..Len(dealers_data) |-> DumpDealer(dealers_data[i])], "]")

(***************************************************************************)
(* json.loads: strings, arrays and objects (the documents hold no numbers  *)
(* or literals).  A parse result is [ok, t, v, pos]; pos is the index      *)
(* after the value.                                                        *)
(***************************************************************************)
Fail == [ok |-> FALSE, t |-> "fail", v |-> <<>>, pos |-> 0]

RECURSIVE SkipWs(_, _)
SkipWs(s, i) == IF i <= Len(s) /\ IsSpace(s[i]) THEN SkipWs(s, i + 1) ELSE i

\* The string whose opening quote is before index k.  A raw line break in a
\* string is an error, and so is a backslash before anything but '"' or '\'.
RECURSIVE ScanString(_, _, _)
ScanString(s, k, acc) ==
  IF k > Len(s) THEN Fail
  ELSE IF s[k] = QUOTE THEN [ok |-> TRUE, t |-> "str", v |-> acc, pos |-> k + 1]
  ELSE IF s[k] = BSL
  THEN IF k + 1 <= Len(s) /\ s[k + 1] \in {QUOTE, BSL}
       THEN ScanString(s, k + 2, Append(acc, s[k + 1]))
       ELSE Fail
  ELSE IF s[k] = NL THEN Fail
  ELSE ScanString(s, k + 1, Append(acc, s[k]))

RECURSIVE ParseValue(_, _)
RECURSIVE ParseItems(_, _, _)
RECURSIVE ParseMembers(_, _, _)
ParseValue(s, i0) ==
  LET i == SkipWs(s, i0)
  IN IF i > Len(s) THEN Fail
     ELSE IF s[i] = QUOTE THEN ScanString(s, i + 1, <<>>)
     ELSE IF s[i] = "["
     THEN LET j == SkipWs(s, i + 1)
          IN IF j <= Len(s) /\ s[j] = "]"
             THEN [ok |-> TRUE, t |-> "arr", v |-> <<>>, pos |-> j + 1]
             ELSE ParseItems(s, i + 1, <<>>)
     ELSE IF s[i] = "{"
     THEN LET j == SkipWs(s, i + 1)
          IN IF j <= Len(s) /\ s[j] = "}"
             THEN [ok |-> TRUE, t |-> "obj", v |-> <<>>, pos |-> j + 1]
             ELSE ParseMembers(s, i + 1, <<>>)
     ELSE Fail

ParseItems(s, i, acc) ==
  LET r == ParseValue(s, i)
      j == SkipWs(s, r.pos)
      items == Append(acc, [t |-> r.t, v |-> r.v])
  IN IF ~r.ok \/ j > Len(s) THEN Fail
     ELSE IF s[j] = "," THEN ParseItems(s, j + 1, items)
     ELSE IF s[j] = "]" THEN [ok |-> TRUE, t |-> "arr", v |-> items, pos |-> j + 1]
     ELSE Fail

ParseMembers(s, i, acc) ==
  LET k == SkipWs(s, i)
      key == IF k <= Len(s) /\ s[k] = QUOTE THEN ScanString(s, k + 1, <<>>) ELSE Fail
      c == SkipWs(s, key.pos)
      r == IF key.ok /\ c <= Len(s) /\ s[c] = ":" THEN ParseValue(s, c + 1) ELSE Fail
      j == SkipWs(s, r.pos)
      members == Append(acc, [k |-> key.v, t |-> r.t, v |-> r.v])
  IN IF ~r.ok \/ j > Len(s) THEN Fail
     ELSE IF s[j] = "," THEN ParseMembers(s, j + 1, members)
     ELSE IF s[j] = "}" THEN [ok |-> TRUE, t |-> "obj", v |-> members, pos |-> j + 1]
     ELSE Fail

\* json.loads(text): one value and nothing but whitespace after it.
json_loads(s) ==
  LET r == ParseValue(s, 1)
  IN IF r.ok /\ SkipWs(s, r.pos) > Len(s) THEN r ELSE Fail

\* The parsed value as the list of dealer dicts the rest of the program reads:
\* objects with the keys name, contact, rating, regions, paddyTypes.
ObjKeys(obj) == [i \in 1..Len(obj.v) |-> obj.v[i].k]

IsStrList(x) == x.t = "arr" /\ \A i \in 1..Len(x.v) : x.v[i].t = "str"

IsPaddy(x) ==
  /\ x.t = "obj"
  /\ ObjKeys(x) = [i \in 1..3 |-> <<PaddyKeys[i]>>]
  /\ \A i \in 1..3 : x.v[i].t = "str"

IsDealer(x) ==
  /\ x.t = "obj"
  /\ ObjKeys(x) = [i \in 1..5 |-> <<DealerKeys[i]>>]
  /\ \A i \in 1..3 : x.v[i].t = "str"
  /\ IsStrList(x.v[4])
  /\ x.v[5].t = "arr"
  /\ \A i \in 1..Len(x.v[5].v) : IsPaddy(x.v[5].v[i])

StrListOf(x) == [i \in 1..Len(x.v) |-> x.v[i].v]

PaddyOf(x) == [name |-> x.v[1].v, price |-> x.v[2].v, unit |-> x.v[3].v]

DealerOf(x) ==
  [name |-> x.v[1].v, contact |-> x.v[2].v, rating |-> x.v[3].v,
   regions |-> StrListOf(x.v[4]),
   paddyTypes |-> [i \in 1..Len(x.v[5].v) |-> PaddyOf(x.v[5].v[i])]]

IsDealerList(x) == x.t = "arr" /\ \A i \in 1..Len(x.v) : IsDealer(x.v[i])

(***************************************************************************)
(* DataManager                                                             *)
(***************************************************************************)
\* extract_dealers_data, with whether st.error was called.
ExtractDealers(html_content) ==
  LET i == Search("statement", html_content, 1)
      dealers_str == FixGlyphs(QuoteKeys(
                        SubSeq(html_content, i + 1, StmtMatchEnd(html_content, i) - 1)))
      parsed == json_loads(dealers_str)
  IN IF i = 0 THEN [dealers |-> <<>>, found |-> FALSE, error |-> FALSE]
     ELSE IF parsed.ok /\ IsDealerList(parsed)
     THEN [dealers |-> [k \in 1..Len(parsed.v) |-> DealerOf(parsed.v[k])],
           found |-> TRUE, error |-> FALSE]
     ELSE [dealers |-> <<>>, found |-> TRUE, error |-> TRUE]

extract_dealers_data(html_content) == ExtractDealers(html_content).dealers

\* re.findall: group 1 of every non-overlapping match, left to right.
RECURSIVE FindAllOptions(_, _)
FindAllOptions(text, from) ==
  LET i == Search("option", text, from)
  IN IF i = 0 THEN <<>>
     ELSE <<SubSeq(text, i + 1, WordRunEnd(text, i + 1))>>
          \o FindAllOptions(text, OptionMatchEnd(text, i) + 1)

extract_regions(html_content) ==
  SelectSeq(FindAllOptions(html_content, 1), LAMBDA m : m # <<>>)

\* Variant: a text without the statement gets one appended.
update_dealers_or_append(html_content, dealers_data) ==
  LET new_data == <<KW_DEALERS>> \o json_dumps(dealers_data) \o <<";">>
      updated_html == ReSub("statement", new_data, html_content)
  IN IF ~updated_html.ok THEN html_content
     ELSE IF Search("statement", html_content, 1) = 0 THEN html_content \o new_data
     ELSE updated_html.v

update_dealers_in_html(html_content, dealers_data) ==
  LET dealers_js == json_dumps(dealers_data)
      new_data == <<KW_DEALERS>> \o dealers_js \o <<";">>
      updated_html == ReSub("statement", new_data, html_content)
  IN IF updated_html.ok THEN updated_html.v ELSE html_content

OptionTag(region) == <<OPT_OPEN>> \o region \o <<OPT_MID>> \o region \o <<OPT_CLOSE>>

update_regions_in_html(html_content, regions) ==
  LET ordered == sorted(regions)
      options == Join(<<NL>>, <<<<PLACEHOLDER>>>>
                        \o [i \in 1..Len(ordered) |-> OptionTag(ordered[i])])
      new_select == <<SEL_OPEN, NL>> \o options \o <<NL, SEL_CLOSE>>
      updated_html == ReSub("select", new_select, html_content)
  IN IF updated_html.ok THEN updated_html.v ELSE html_content

(***************************************************************************)
(* Documents the repository may hold                                       *)
(***************************************************************************)
East == <<"East">>
West == <<"West">>
North == <<"North">>
NewTown == <<"New", SP, "Town">>

\* A label with a backslash in it, as in a path.
BackslashLabel == <<"A", BSL, "B">>

\* The array as the site's author writes it: JavaScript, keys not quoted.
JsMember(key, valueText) == <<key, ":">> \o valueText

JsPaddy(p) ==
  <<"{">> \o Join(<<",">>, << JsMember("name", DumpStr(p.name)),
                              JsMember("price", DumpStr(p.price)),
                              JsMember("unit", DumpStr(p.unit)) >>) \o <<"}">>

JsDealer(d) ==
  <<"{">> \o Join(<<",">>,
     << JsMember("name", DumpStr(d.name)),
        JsMember("contact", DumpStr(d.contact)),
        JsMember("rating", DumpStr(d.rating)),
        JsMember("regions",
          <<"[">> \o Join(<<",">>, [i \in 1..Len(d.regions) |-> DumpStr(d.regions[i])])
          \o <<"]">>),
        JsMember("paddyTypes",
          <<"[">> \o Join(<<",">>, [i \in 1..Len(d.paddyTypes) |-> JsPaddy(d.paddyTypes[i])])
          \o <<"]">>) >>) \o <<"}">>

JsStatement(ds) ==
  <<KW_DEALERS, "[", NL>> \o Join(<<",", NL>>, [i \in 1..Len(ds) |-> JsDealer(ds[i])])
  \o <<NL, "]", ";">>

\* The same with a comma after the last object: JavaScript, not JSON.
JsStatementTrailingComma(ds) ==
  <<KW_DEALERS, "[", NL>> \o Join(<<",", NL>>, [i \in 1..Len(ds) |-> JsDealer(ds[i])])
  \o <<",", NL, "]", ";">>

SelectBlock(labels) ==
  <<SEL_OPEN, NL, PLACEHOLDER>>
  \o Flatten([i \in 1..Len(labels) |-> <<NL>> \o OptionTag(labels[i])])
  \o <<NL, SEL_CLOSE>>

Page(select, statement) ==
  <<"<html><body>">> \o select \o <<"<script>">> \o statement \o <<"</script></body></html>">>

Rice == [name |-> <<"Rice">>, price |-> <<"<rupee>", "100">>, unit |-> UNIT]

DealerA ==
  [name |-> <<"A">>, contact |-> <<"<phone>", SP, "100">>, rating |-> <<"5", SP, "<star>">>,
   regions |-> <<East>>, paddyTypes |-> <<Rice>>]

\* Dealer A as a file stored with the mis-decoded glyphs shows it.
DealerAGarbled ==
  [name |-> <<"A">>, contact |-> <<"<mojibake phone>", SP, "100">>,
   rating |-> <<"5", SP, "<mojibake star>">>, regions |-> <<East>>,
   paddyTypes |-> <<[name |-> <<"Rice">>, price |-> <<"<mojibake rupee>", "100">>,
                     unit |-> UNIT]>>]

DealerW ==
  [name |-> <<"A", SP, "B">>, contact |-> <<"100">>, rating |-> <<"5">>,
   regions |-> <<West>>, paddyTypes |-> <<Rice>>]

DocGood == Page(SelectBlock(<<East, West>>), JsStatement(<<DealerAGarbled, DealerW>>))

DocRepeatedOption == Page(SelectBlock(<<East, West, East>>), JsStatement(<<DealerA>>))

DocTrailingComma == Page(SelectBlock(<<East, West>>), JsStatementTrailingComma(<<DealerA>>))

DocNoStatement == Page(SelectBlock(<<East, West>>), <<>>)

DocNoSelect == Page(<<>>, JsStatement(<<DealerA>>))

Docs == {DocGood, DocRepeatedOption, DocTrailingComma, DocNoStatement, DocNoSelect}

(***************************************************************************)
(* The session: st.session_state, the file in the repository, and a record *)
(* of the last script run (what the operator did, how it ended, how many   *)
(* requests it sent).                                                      *)
(***************************************************************************)
VARIABLES
  remote_content,   \* the file as stored at GITHUB_FILEPATH on GITHUB_BRANCH
  loaded,           \* 'html_content' in st.session_state
  html_content,     \* st.session_state.html_content
  sha,              \* st.session_state.sha
  dealers,          \* st.session_state.dealers
  regions,          \* st.session_state.regions
  changes_made,     \* st.session_state.get('changes_made', False)
  editing_dealer,   \* {} or {index}: st.session_state.editing_dealer, when set
  selected,         \* {} or {the dealer whose "Edit" button set editing_dealer}
                    \* (lists are indexed from 1 here, from 0 in the program)
  last,             \* the last script run: [op, result, calls]
  steps,            \* script runs and foreign commits so far
  c_text,           \* codec runs: the text the codec functions are applied to
  c_base,           \* codec runs: the text before the last application
  c_dealers,        \* codec runs: the dealers_data argument
  c_regions,        \* codec runs: the regions argument
  c_ops             \* codec runs: the functions applied so far, in order

vars == <<remote_content, loaded, html_content, sha, dealers, regions, changes_made,
          editing_dealer, selected, last, steps, c_text, c_base, c_dealers, c_regions, c_ops>>

codec == <<c_text, c_base, c_dealers, c_regions, c_ops>>

session == <<loaded, html_content, sha, dealers, regions, changes_made, editing_dealer, selected>>

MaxSteps == 5
MaxDealers == 2
MaxRegions == 3

\* The blob id the contents API returns for a file: a function of its content.
BlobSha(content) == <<"blob", content>>

Run(op, result, calls) == [op |-> op, result |-> result, calls |-> calls]

\* What the operator may type into a dealer form: every field filled, or
\* one of them left empty.
FullForm(picked) ==
  [name |-> <<"B">>, contact |-> <<"<phone>", SP, "100">>, rating |-> <<"5">>,
   regions |-> picked, rows |-> <<[name |-> <<"Rice">>, price |-> <<"100">>]>>]

FormInputs(options) ==
  LET picked == IF options = <<>> THEN <<>> ELSE <<options[1]>>
      full == FullForm(picked)
  IN { full,
       [full EXCEPT !.name = <<>>],
       [full EXCEPT !.contact = <<>>],
       [full EXCEPT !.rating = <<>>],
       [full EXCEPT !.regions = <<>>],
       [full EXCEPT !.rows = <<[name |-> <<"Rice">>, price |-> <<>>]>>] }

RegionInputs == {<<>>, North, NewTown, BackslashLabel}

\* The paddy_types list a form builds: the rows with both a name and a price.
PaddyTypesOf(rows) ==
  LET complete == SelectSeq(rows, LAMBDA r : r.name # <<>> /\ r.price # <<>>)
  IN [i \in 1..Len(complete) |->
        [name |-> complete[i].name, price |-> complete[i].price, unit |-> UNIT]]

DealerOfForm(f) ==
  [name |-> f.name, contact |-> f.contact, rating |-> f.rating,
   regions |-> f.regions, paddyTypes |-> PaddyTypesOf(f.rows)]

RemoveAt(s, i) == SubSeq(s, 1, i - 1) \o SubSeq(s, i + 1, Len(s))

\* list.remove(x): the first occurrence.
RemoveFirst(s, x) == RemoveAt(s, Min({i \in 1..Len(s) : s[i] = x}))

NewSession ==
  /\ loaded = FALSE
  /\ html_content = <<>>
  /\ sha = <<>>
  /\ dealers = <<>>
  /\ regions = <<>>
  /\ changes_made = FALSE
  /\ editing_dealer = {}
  /\ selected = {}
  /\ last = Run("start", "ok", 0)
  /\ steps = 0

CodecIdle ==
  /\ c_text = <<>>
  /\ c_base = <<>>
  /\ c_dealers = <<>>
  /\ c_regions = <<>>
  /\ c_ops = <<>>

Init == remote_content \in Docs /\ NewSession /\ CodecIdle

\* GitHubManager.get_file: (content, sha), or (None, None) on any failure.
get_file(net_ok) ==
  IF net_ok THEN [ok |-> TRUE, content |-> remote_content, sha |-> BlobSha(remote_content)]
  ELSE [ok |-> FALSE, content |-> <<>>, sha |-> <<>>]

\* The PUT of GitHubManager.update_file as the contents API answers it.
PutResult(net_ok, given_sha) ==
  IF ~net_ok THEN "transport"
  ELSE IF given_sha # BlobSha(remote_content) THEN "conflict"
  ELSE "ok"

\* The edit form section indexes st.session_state.dealers with editing_dealer;
\* an index past the end raises and ends the script run there.
EditFormRenders == \A idx \in editing_dealer : idx \in 1..Len(dealers)

Tick == steps < MaxSteps /\ steps' = steps + 1 /\ UNCHANGED codec

\* Variant: a failed fetch stores the (None, None) it got.
FetchRunStoresFailure(net_ok) ==
  LET r == get_file(net_ok)
      op == IF loaded THEN "refresh" ELSE "load"
  IN /\ Tick
     /\ html_content' = r.content
     /\ sha' = r.sha
     /\ dealers' = extract_dealers_data(r.content)
     /\ regions' = extract_regions(r.content)
     /\ loaded' = (loaded \/ r.ok)
     /\ last' = Run(op, IF r.ok /\ r.content # <<>> THEN "ok" ELSE "transport", 1)
     /\ UNCHANGED <<remote_content, changes_made, editing_dealer, selected>>

\* A refresh that keeps the lists of a session with unsaved changes.
FetchRunKeepsEdits(net_ok) ==
  LET r == get_file(net_ok)
      op == IF loaded THEN "refresh" ELSE "load"
  IN /\ Tick
     /\ IF r.ok /\ r.content # <<>>
        THEN /\ html_content' = r.content
             /\ sha' = r.sha
             /\ dealers' = IF changes_made THEN dealers ELSE extract_dealers_data(r.content)
             /\ regions' = IF changes_made THEN regions ELSE extract_regions(r.content)
             /\ loaded' = TRUE
             /\ last' = Run(op, "ok", 1)
        ELSE /\ UNCHANGED <<html_content, sha, dealers, regions, loaded>>
             /\ last' = Run(op, "transport", 1)
     /\ UNCHANGED <<remote_content, changes_made, editing_dealer, selected>>

\* First run of a session, or the "Refresh Data" button.
FetchRun(net_ok) ==
  LET r == get_file(net_ok)
      op == IF loaded THEN "refresh" ELSE "load"
  IN /\ Tick
     /\ IF r.ok /\ r.content # <<>>
        THEN /\ html_content' = r.content
             /\ sha' = r.sha
             /\ dealers' = extract_dealers_data(r.content)
             /\ regions' = extract_regions(r.content)
             /\ loaded' = TRUE
             /\ last' = Run(op, "ok", 1)
        ELSE /\ UNCHANGED <<html_content, sha, dealers, regions, loaded>>
             /\ last' = Run(op, "transport", 1)
     /\ UNCHANGED <<remote_content, changes_made, editing_dealer, selected>>

\* The "Edit" button of dealer idx.
ClickEdit(idx) ==
  /\ loaded /\ Tick
  /\ idx \in 1..Len(dealers)
  /\ editing_dealer' = {idx}
  /\ selected' = {dealers[idx]}
  /\ last' = Run("click_edit", "ok", 0)
  /\ UNCHANGED <<remote_content, loaded, html_content, sha, dealers, regions, changes_made>>

\* The "Delete" button of dealer idx.
ClickDelete(idx) ==
  /\ loaded /\ Tick
  /\ idx \in 1..Len(dealers)
  /\ dealers' = RemoveAt(dealers, idx)
  /\ changes_made' = TRUE
  /\ last' = Run("delete", "ok", 0)
  /\ UNCHANGED <<remote_content, loaded, html_content, sha, regions, editing_dealer, selected>>

\* "Add Dealer" submitted with form f.
SubmitAdd(f) ==
  /\ loaded /\ Tick
  /\ IF /\ f.name # <<>> /\ f.contact # <<>> /\ f.rating # <<>>
        /\ f.regions # <<>> /\ PaddyTypesOf(f.rows) # <<>>
     THEN /\ Len(dealers) < MaxDealers
          /\ dealers' = Append(dealers, DealerOfForm(f))
          /\ changes_made' = TRUE
          /\ last' = Run("add", "ok", 0)
     ELSE /\ UNCHANGED <<dealers, changes_made>>
          /\ last' = Run("add", "invalid", 0)
  /\ UNCHANGED <<remote_content, loaded, html_content, sha, regions, editing_dealer, selected>>

\* "Save Changes" of the edit form submitted with form f.
SubmitEdit(f) ==
  /\ loaded /\ Tick
  /\ editing_dealer # {} /\ EditFormRenders
  /\ dealers' = [dealers EXCEPT ![CHOOSE idx \in editing_dealer : TRUE] = DealerOfForm(f)]
  /\ changes_made' = TRUE
  /\ editing_dealer' = {}
  /\ selected' = {}
  /\ last' = Run("edit", "ok", 0)
  /\ UNCHANGED <<remote_content, loaded, html_content, sha, regions>>

\* "Cancel" of the edit form.
CancelEdit ==
  /\ loaded /\ Tick
  /\ editing_dealer # {} /\ EditFormRenders
  /\ editing_dealer' = {}
  /\ selected' = {}
  /\ last' = Run("cancel", "ok", 0)
  /\ UNCHANGED <<remote_content, loaded, html_content, sha, dealers, regions, changes_made>>

\* Variant: deleting a region pushes the file at once.
DeleteRegionAndPush(region) ==
  /\ loaded /\ Tick
  /\ EditFormRenders
  /\ region \in Elems(regions)
  /\ regions' = RemoveFirst(regions, region)
  /\ remote_content' = IF sha = BlobSha(remote_content)
                       THEN update_regions_in_html(html_content, regions')
                       ELSE remote_content
  /\ changes_made' = TRUE
  /\ last' = Run("delete_region", "ok", 1)
  /\ UNCHANGED <<loaded, html_content, sha, dealers, editing_dealer, selected>>

\* The delete button of a region.
DeleteRegion(region) ==
  /\ loaded /\ Tick
  /\ EditFormRenders
  /\ region \in Elems(regions)
  /\ regions' = RemoveFirst(regions, region)
  /\ changes_made' = TRUE
  /\ last' = Run("delete_region", "ok", 0)
  /\ UNCHANGED <<remote_content, loaded, html_content, sha, dealers, editing_dealer, selected>>

\* "Add Region" with new_region typed.
AddRegion(new_region) ==
  /\ loaded /\ Tick
  /\ EditFormRenders
  /\ IF new_region # <<>> /\ new_region \notin Elems(regions)
     THEN /\ Len(regions) < MaxRegions
          /\ regions' = Append(regions, new_region)
          /\ changes_made' = TRUE
          /\ last' = Run("add_region", "ok", 0)
     ELSE /\ UNCHANGED <<regions, changes_made>>
          /\ last' = Run("add_region", IF new_region = <<>> THEN "invalid" ELSE "exists", 0)
  /\ UNCHANGED <<remote_content, loaded, html_content, sha, dealers, editing_dealer, selected>>

\* Variant: a rejected write is sent again with the file's current sha.
SaveRunRetrying(net_ok) ==
  LET updated_html == update_regions_in_html(
                        update_dealers_in_html(html_content, dealers), regions)
      result == PutResult(net_ok, sha)
  IN /\ loaded /\ Tick
     /\ EditFormRenders
     /\ changes_made
     /\ IF result # "transport"
        THEN /\ remote_content' = updated_html
             /\ changes_made' = FALSE
             /\ html_content' = updated_html
        ELSE UNCHANGED <<remote_content, changes_made, html_content>>
     /\ last' = Run("save", result, IF result = "conflict" THEN 3 ELSE 1)
     /\ UNCHANGED <<loaded, sha, dealers, regions, editing_dealer, selected>>

\* Variant: a save that leaves the held text as it was loaded.
SaveRunKeepsText(net_ok) ==
  LET updated_html == update_regions_in_html(
                        update_dealers_in_html(html_content, dealers), regions)
      result == PutResult(net_ok, sha)
  IN /\ loaded /\ Tick
     /\ EditFormRenders
     /\ changes_made
     /\ IF result = "ok"
        THEN /\ remote_content' = updated_html
             /\ changes_made' = FALSE
        ELSE UNCHANGED <<remote_content, changes_made>>
     /\ last' = Run("save", result, 1)
     /\ UNCHANGED <<loaded, html_content, sha, dealers, regions, editing_dealer, selected>>

\* Variant: a save that, once written, fetches the file again for its sha.
SaveRunThenFetch(net_ok) ==
  LET updated_html == update_regions_in_html(
                        update_dealers_in_html(html_content, dealers), regions)
      result == PutResult(net_ok, sha)
  IN /\ loaded /\ Tick
     /\ EditFormRenders
     /\ changes_made
     /\ IF result = "ok"
        THEN /\ remote_content' = updated_html
             /\ changes_made' = FALSE
             /\ html_content' = updated_html
             /\ sha' = BlobSha(updated_html)
             /\ last' = Run("save", result, 2)
        ELSE /\ UNCHANGED <<remote_content, changes_made, html_content, sha>>
             /\ last' = Run("save", result, 1)
     /\ UNCHANGED <<loaded, dealers, regions, editing_dealer, selected>>

\* Variant: a save that writes the held text back as it is when one of the
\* two blocks is not in it.
SaveRunAllOrNothing(net_ok) ==
  LET encoded == update_regions_in_html(
                   update_dealers_in_html(html_content, dealers), regions)
      updated_html == IF /\ Search("statement", html_content, 1) # 0
                         /\ Search("select", html_content, 1) # 0
                         /\ \A i \in 1..Len(regions) : BSL \notin Elems(regions[i])
                      THEN encoded ELSE html_content
      result == PutResult(net_ok, sha)
  IN /\ loaded /\ Tick
     /\ EditFormRenders
     /\ changes_made
     /\ IF result = "ok"
        THEN /\ remote_content' = updated_html
             /\ changes_made' = FALSE
             /\ html_content' = updated_html
        ELSE UNCHANGED <<remote_content, changes_made, html_content>>
     /\ last' = Run("save", result, 1)
     /\ UNCHANGED <<loaded, sha, dealers, regions, editing_dealer, selected>>

\* "Save Changes to GitHub".
SaveRun(net_ok) ==
  LET updated_html == update_regions_in_html(
                        update_dealers_in_html(html_content, dealers), regions)
      result == PutResult(net_ok, sha)
  IN /\ loaded /\ Tick
     /\ EditFormRenders
     /\ changes_made
     /\ IF result = "ok"
        THEN /\ remote_content' = updated_html
             /\ changes_made' = FALSE
             /\ html_content' = updated_html
        ELSE UNCHANGED <<remote_content, changes_made, html_content>>
     /\ last' = Run("save", result, 1)
     /\ UNCHANGED <<loaded, sha, dealers, regions, editing_dealer, selected>>

\* Somebody else commits another version of the file.
OtherWriter(doc) ==
  /\ Tick
  /\ doc # remote_content
  /\ remote_content' = doc
  /\ last' = Run("other", "ok", 0)
  /\ UNCHANGED session

Next ==
  \/ \E net_ok \in BOOLEAN : FetchRun(net_ok)
  \/ \E idx \in 1..Len(dealers) : ClickEdit(idx)
  \/ \E idx \in 1..Len(dealers) : ClickDelete(idx)
  \/ \E f \in FormInputs(regions) : SubmitAdd(f)
  \/ \E f \in FormInputs(regions) : SubmitEdit(f)
  \/ CancelEdit
  \/ \E region \in Elems(regions) : DeleteRegion(region)
  \/ \E new_region \in RegionInputs : AddRegion(new_region)
  \/ \E net_ok \in BOOLEAN : SaveRun(net_ok)
  \/ \E doc \in Docs : OtherWriter(doc)

Spec == Init /\ [][Next]_vars

(***************************************************************************)
(* The codec functions on their own: the arguments are drawn at the start  *)
(* and the two encoders are applied to the text, in any order, as one save *)
(* or several saves in a row do.                                           *)
(***************************************************************************)
MaxListLen == 2
MaxEncodes == 2

Lists(S, n) == UNION {[1..k -> S] : k \in 0..n}

DealerTel == [DealerA EXCEPT !.contact = <<"Tel", ":", SP, "100">>]

DealerBracket == [DealerA EXCEPT !.name = <<"A", SP, "[", "B", "]", ";">>]

DealerQuote == [DealerA EXCEPT !.name = <<"A", SP, QUOTE, "B", QUOTE>>,
                               !.regions = <<East, NewTown>>]

CodecDealers == {DealerQuote, DealerTel, DealerBracket}

CodecRegions == {East, West, NewTown, BackslashLabel}

\* The assignment started but never closed with "];".
DocOpenStatement == Page(SelectBlock(<<East, West>>), <<KW_DEALERS, "[", "]">>)

CodecTexts == {DocGood, DocRepeatedOption, DocNoStatement, DocOpenStatement, DocNoSelect}

InitCodec ==
  /\ remote_content = DocGood /\ NewSession
  /\ c_text \in CodecTexts
  /\ c_base = c_text
  /\ c_dealers \in Lists(CodecDealers, MaxListLen)
  /\ c_regions \in Lists(CodecRegions, MaxListLen)
  /\ c_ops = <<>>

EncodeRecords ==
  /\ Len(c_ops) < MaxEncodes
  /\ c_base' = c_text
  /\ c_text' = update_dealers_in_html(c_text, c_dealers)
  /\ c_ops' = Append(c_ops, "update_dealers_in_html")
  /\ UNCHANGED <<c_dealers, c_regions, remote_content, session, last, steps>>

EncodeRegions ==
  /\ Len(c_ops) < MaxEncodes
  /\ c_base' = c_text
  /\ c_text' = update_regions_in_html(c_text, c_regions)
  /\ c_ops' = Append(c_ops, "update_regions_in_html")
  /\ UNCHANGED <<c_dealers, c_regions, remote_content, session, last, steps>>

NextCodec == EncodeRecords \/ EncodeRegions

SpecCodec == InitCodec /\ [][NextCodec]_vars

(***************************************************************************)
(* Properties                                                              *)
(***************************************************************************)
Last(s) == s[Len(s)]

\* A step of the session that is one script run (or one foreign commit).
RunStep == steps' = steps + 1

HasStatement(text) == Search("statement", text, 1) # 0

HasSelect(text) == Search("select", text, 1) # 0

\* The text of the first dealersData statement, <<>> when there is none.
StatementText(text) ==
  LET i == Search("statement", text, 1)
  IN IF i = 0 THEN <<>> ELSE SubSeq(text, i, StmtMatchEnd(text, i))

ValidDealer(d) ==
  d.name # <<>> /\ d.contact # <<>> /\ d.rating # <<>> /\ d.paddyTypes # <<>>

\* The distinct elements of s, in order of first occurrence.
Unique(s) ==
  LET firsts == {i \in 1..Len(s) : \A j \in 1..(i - 1) : s[j] # s[i]}
      keep == [i \in 1..Len(s) |-> IF i \in firsts THEN <<s[i]>> ELSE <<>>]
  IN Flatten(keep)

NoRepeats(s) == \A i, j \in 1..Len(s) : s[i] = s[j] => i = j

\* C1: right after a successful save the version token the session holds is
\* the token of the file now in the repository.
C1_HeldTokenCurrentAfterSave ==
  (last.op = "save" /\ last.result = "ok") => sha = BlobSha(remote_content)

\* C2: a save submitted with a token that is not the repository's current
\* token fails, leaves the repository's file as it is, and is sent once only.
C2_ConflictPolicy ==
  [][(RunStep /\ last'.op = "save" /\ sha # BlobSha(remote_content))
       => /\ last'.result \in {"conflict", "transport"}
          /\ remote_content' = remote_content
          /\ last'.calls = 1]_vars

C2_Witness ==
  last.op = "save" /\ last.result = "conflict" /\ remote_content # html_content

\* C3: every record of the in-memory list has a name, a contact, a rating
\* and at least one price entry, whatever was added, edited or deleted.
C3_RecordsStayValid == \A i \in 1..Len(dealers) : ValidDealer(dealers[i])

\* C4: a run whose fetch or write failed (a conflict included) leaves the
\* raw text, the records, the categories, the token and the unsaved-changes
\* flag exactly as they were.
C4_FailedTransportMutatesNothing ==
  [][(RunStep /\ last'.result \in {"transport", "conflict"}) => UNCHANGED session]_vars

C4_Witness ==
  /\ last.op = "refresh" /\ last.result = "transport"
  /\ changes_made /\ dealers # extract_dealers_data(html_content)

\* C5: no run other than "Save Changes to GitHub" changes the file in the
\* repository.
C5_OnlySaveWrites ==
  [][(RunStep /\ last'.op \notin {"save", "other"}) => remote_content' = remote_content]_vars

C5_Witness ==
  /\ last.op \in {"add", "edit", "delete", "add_region", "delete_region"}
  /\ last.result = "ok" /\ changes_made
  /\ remote_content = html_content
  /\ sha = BlobSha(remote_content)

\* C6: when the loaded statement did not parse (so the record list is
\* empty), a successful save leaves the statement of the repository's file
\* as it was instead of replacing its array by an empty one.
C6_UnparsedArrayNotOverwritten ==
  [][(/\ RunStep /\ last'.op = "save" /\ last'.result = "ok"
      /\ ExtractDealers(html_content).error /\ dealers = <<>>)
       => StatementText(remote_content') = StatementText(remote_content)]_vars

\* C7: decoding the text that update_dealers_in_html produced from a text
\* with the statement and a valid record list gives that record list back.
C7_RecordRoundTrip ==
  (/\ c_ops # <<>> /\ Last(c_ops) = "update_dealers_in_html"
   /\ HasStatement(c_base)
   /\ \A i \in 1..Len(c_dealers) : ValidDealer(c_dealers[i]))
    => extract_dealers_data(c_text) = c_dealers

\* C8: decoding the text that update_regions_in_html produced from a text
\* with the selection block and labels S gives sorted(unique(S)).
C8_CategoryRoundTrip ==
  (/\ c_ops # <<>> /\ Last(c_ops) = "update_regions_in_html"
   /\ HasSelect(c_base))
    => extract_regions(c_text) = sorted(Unique(c_regions))

\* C9: the in-memory category list never holds a label twice, nor an empty
\* label.
C9_RegionsUnique ==
  NoRepeats(regions) /\ \A i \in 1..Len(regions) : regions[i] # <<>>

\* C10: update_dealers_in_html applied to a text without the statement
\* returns that text unchanged.
C10_MissingStatementUnchanged ==
  (/\ c_ops # <<>> /\ Last(c_ops) = "update_dealers_in_html"
   /\ ~HasStatement(c_base))
    => c_text = c_base

C10_Witness ==
  /\ c_ops # <<>> /\ Last(c_ops) = "update_dealers_in_html"
  /\ ~HasStatement(c_base) /\ c_dealers # <<>>
  /\ KW_DEALERS \in Elems(c_base)

\* The text before the first selection block, and the text after it.
BeforeSelect(text) == SubSeq(text, 1, Search("select", text, 1) - 1)

AfterSelect(text) ==
  SubSeq(text, SelectMatchEnd(text, Search("select", text, 1)) + 1, Len(text))

Sorted(s) == \A i \in 1..(Len(s) - 1) : ~StrLess(s[i + 1], s[i])

SameBag(s, t) ==
  /\ Len(s) = Len(t)
  /\ \A x \in Elems(s) \cup Elems(t) :
       Cardinality({i \in 1..Len(s) : s[i] = x}) = Cardinality({i \in 1..Len(t) : t[i] = x})

\* A selection block whose options are the placeholder and then the labels.
BlockOf(labels) ==
  <<SEL_OPEN, NL, PLACEHOLDER>>
  \o Flatten([i \in 1..Len(labels) |->
                <<NL, OPT_OPEN>> \o labels[i] \o <<OPT_MID>> \o labels[i] \o <<OPT_CLOSE>>])
  \o <<NL, SEL_CLOSE>>

\* C11: the text update_regions_in_html returns is the input with its
\* selection block replaced by one that holds the placeholder and then one
\* option per category in sorted order; nothing outside the block changes.
C11_SelectBlockRebuilt ==
  (/\ c_ops # <<>> /\ Last(c_ops) = "update_regions_in_html"
   /\ HasSelect(c_base))
    => \E labels \in Lists(Elems(c_regions), Len(c_regions)) :
         /\ SameBag(labels, c_regions)
         /\ Sorted(labels)
         /\ c_text = BeforeSelect(c_base) \o BlockOf(labels) \o AfterSelect(c_base)

\* The same for labels without a backslash.
C11_NoBackslash ==
  (\A i \in 1..Len(c_regions) : BSL \notin Elems(c_regions[i])) => C11_SelectBlockRebuilt

\* C12: encoding the same lists a second time, into the text the first
\* encode produced, returns that text again.
C12_EncodeIdempotent ==
  (/\ Len(c_ops) >= 2
   /\ c_ops[Len(c_ops)] = c_ops[Len(c_ops) - 1])
    => c_text = c_base

\* The same for the category encoder alone.
C12_RegionsIdempotent ==
  (Len(c_ops) >= 2 /\ Last(c_ops) = "update_regions_in_html") => C12_EncodeIdempotent

\* C13: right after a successful refresh the four fields of the session are
\* those of the fetched file: its content, its sha, and the dealers and
\* regions extracted from that content.
C13_RefreshReplacesState ==
  (last.op = "refresh" /\ last.result = "ok")
    => /\ html_content = remote_content
       /\ sha = BlobSha(remote_content)
       /\ dealers = ExtractDealers(remote_content).dealers
       /\ regions = extract_regions(remote_content)

\* A successful refresh in a session that had unsaved edits.
C13_Witness ==
  /\ last.op = "refresh" /\ last.result = "ok"
  /\ changes_made

\* Whether json.loads accepts the cleaned-up array of the text's statement.
StatementParses(text) ==
  LET i == Search("statement", text, 1)
  IN /\ i # 0
     /\ json_loads(FixGlyphs(QuoteKeys(
          SubSeq(text, i + 1, StmtMatchEnd(text, i) - 1)))).ok

\* C14: when the loaded text has no dealersData statement, and when its
\* array does not parse, extract_dealers_data returns the empty list and
\* calls st.error.
C14_DecodeFailureReported ==
  (/\ last.op \in {"load", "refresh"} /\ last.result = "ok"
   /\ ~StatementParses(html_content))
    => /\ dealers = <<>>
       /\ ExtractDealers(html_content).error

\* The half of it about an array that does not parse.
C14_ParseFailureReported ==
  HasStatement(html_content) => C14_DecodeFailureReported

C14_ParseFailureLoaded ==
  /\ last.op \in {"load", "refresh"} /\ last.result = "ok"
  /\ HasStatement(html_content) /\ ~StatementParses(html_content)

\* No label holds a backslash, which re.sub reads as the start of an escape
\* in the replacement text.
PlainLabels(labels) == \A i \in 1..Len(labels) : BSL \notin Elems(labels[i])

\* json.dumps of the records has no escape in it (no quote, no backslash in
\* a string), so the replacement text stands for itself.
PlainRecords(records) == BSL \notin Elems(json_dumps(records))

\* C15: a save whose held text has no selection block, or whose selection
\* block cannot be rebuilt, still sends the write and the written text has
\* the new dealers array in its statement; a save whose held text has no
\* statement still sends the write and the written text has the selection
\* block rebuilt from the region list.
C15_BestEffortSave ==
  [][(RunStep /\ last'.op = "save")
       => /\ last'.calls = 1
          /\ (/\ last'.result = "ok"
              /\ HasStatement(html_content) /\ PlainRecords(dealers)
              /\ ~HasSelect(html_content) \/ ~PlainLabels(regions))
               => StatementText(remote_content')
                    = <<KW_DEALERS>> \o json_dumps(dealers) \o <<";">>
          /\ (/\ last'.result = "ok"
              /\ ~HasStatement(html_content)
              /\ HasSelect(html_content) /\ PlainLabels(regions))
               => remote_content' = BeforeSelect(html_content)
                                      \o BlockOf(sorted(regions))
                                      \o AfterSelect(html_content)]_vars

\* A successful save with a region list the selection block cannot be
\* rebuilt from: the file has the new dealers array and the old block.
C15_Witness ==
  /\ last.op = "save" /\ last.result = "ok"
  /\ HasStatement(remote_content) /\ HasSelect(remote_content)
  /\ ~PlainLabels(regions) /\ PlainRecords(dealers)
  /\ StatementText(remote_content) = <<KW_DEALERS>> \o json_dumps(dealers) \o <<";">>

\* A successful save of a file without selection block.
C15_SavedWithoutSelect ==
  /\ last.op = "save" /\ last.result = "ok"
  /\ HasStatement(remote_content) /\ ~HasSelect(remote_content)

\* A successful save of a file without statement.
C15_SavedWithoutStatement ==
  /\ last.op = "save" /\ last.result = "ok"
  /\ ~HasStatement(remote_content) /\ HasSelect(remote_content)
  /\ PlainLabels(regions)

\* C16: a script run sends at most one request, and only the load, the
\* refresh and the save send one; a failed request is not sent again.
C16_OneCallPerRun ==
  /\ last.calls <= 1
  /\ last.calls = 1 => last.op \in {"load", "refresh", "save"}

\* A save whose request failed: it was sent once.
C16_Witness ==
  /\ last.op = "save" /\ last.result \in {"transport", "conflict"}
  /\ last.calls = 1

\* C17: whenever a dealer is being edited, editing_dealer is an index of
\* the dealers list.
C17_EditingIndexValid ==
  editing_dealer # {} => editing_dealer \subseteq 1..Len(dealers)

\* C18: the submit of the edit form replaces the record whose "Edit" button
\* was clicked and leaves every other record where it was.
C18_EditTargetsSelected ==
  [][(RunStep /\ last'.op = "edit")
       => \A idx \in editing_dealer :
            /\ dealers[idx] \in selected
            /\ Len(dealers') = Len(dealers)
            /\ \A j \in 1..Len(dealers) : j # idx => dealers'[j] = dealers[j]]_vars

\* The same for a form submitted in the run that follows the click.
C18_SubmitRightAfterClick ==
  [][(RunStep /\ last'.op = "edit" /\ last.op = "click_edit")
       => \A idx \in editing_dealer :
            /\ dealers[idx] \in selected
            /\ Len(dealers') = Len(dealers)
            /\ \A j \in 1..Len(dealers) : j # idx => dealers'[j] = dealers[j]]_vars

\* C19: right after a successful save the held text is the content of the
\* repository's file, which is what a refresh would fetch, and changes_made
\* is off.
C19_HeldTextTracksRemote ==
  (last.op = "save" /\ last.result = "ok")
    => /\ html_content = remote_content
       /\ ~changes_made
       /\ get_file(TRUE).content = html_content

\* A successful save that wrote a text other than the one that was loaded:
\* the statement of the file is the json.dumps of the session's records.
C19_Witness ==
  /\ last.op = "save" /\ last.result = "ok"
  /\ PlainRecords(dealers)
  /\ StatementText(html_content) = <<KW_DEALERS>> \o json_dumps(dealers) \o <<";">>
  /\ html_content \notin Docs

====
